---- MODULE Spec2Model ----
(***************************************************************************)
(* Model of the NBA API service (src/main.py): the read-only data routes   *)
(* over the static tables, and the POST /chat relay running on the         *)
(* server's event loop.                                                    *)
(***************************************************************************)
EXTENDS Integers, Sequences, FiniteSets, TLC

VARIABLES team_data, standings_data_eastern, standings_data_western, games_data,
          request, response,
          pc, loop, inflight, external, outbound, external_calls, replies

tables == <<team_data, standings_data_eastern, standings_data_western, games_data>>
server == <<pc, loop, inflight, external, outbound, external_calls, replies>>
vars == <<team_data, standings_data_eastern, standings_data_western, games_data,
          request, response, pc, loop, inflight, external, outbound, external_calls, replies>>

----------------------------------------------------------------------------
(* Bounds of the model.                                                    *)
MaxTeams == 2
MaxRoster == 2
MaxRows == 2
MaxGames == 2
MaxLen == 2
MaxMsgs == 2
NumReqs == 2

----------------------------------------------------------------------------
(* Text. A str is a sequence of characters; str.lower() and str.upper()    *)
(* map it character by character.                                          *)
Chars == {"a", "A", "b", "B"}

Str(n) == UNION {[1..k -> Chars] : k \in 0..n}

LowerChar(c) == CASE c = "A" -> "a" [] c = "B" -> "b" [] OTHER -> c

UpperChar(c) == CASE c = "a" -> "A" [] c = "b" -> "B" [] OTHER -> c

lower(s) == [i \in 1..Len(s) |-> LowerChar(s[i])]

upper(s) == [i \in 1..Len(s) |-> UpperChar(s[i])]

\* Python's `needle in hay` on two strs.
StrIn(needle, hay) ==
    \E i \in 0..(Len(hay) - Len(needle)) :
        \A k \in 1..Len(needle) : hay[i + k] = needle[k]

\* The value of an Optional[str] query parameter that was not supplied.
None == <<"None">>

\* Python truthiness of an Optional[str]: None and "" are falsy.
Truthy(x) == x # None /\ x # <<>>

SeqsUpTo(S, n) == UNION {[1..k -> S] : k \in 0..n}

\* next(...) over a table: the index of the first entry among those the
\* generator's condition selects, 0 for the default None.
FirstIndex(selected) ==
    IF selected = {} THEN 0 ELSE CHOOSE i \in selected : \A j \in selected : i <= j

HTTPException(status_code, detail) == [status |-> status_code, detail |-> detail]

OK(body) == [status |-> 200, body |-> body]

----------------------------------------------------------------------------
(* The records of the static tables.                                       *)
Player(name, position, country) ==
    [name |-> name, position |-> position, height |-> "6-6", weight |-> "220",
     last_attended |-> "college", country |-> country]

Team(id, name, roster) == [id |-> id, name |-> name, roster |-> roster]

Standing(name, w) ==
    [Team |-> name, W |-> w, L |-> 1, PCT |-> 500, GB |-> "-", L10 |-> "5-5", Strk |-> "W1"]

Game(team1, team2, date) ==
    [team1 |-> team1, team2 |-> team2, date |-> date, location |-> "arena"]

PlayerPool ==
    { Player(<<"A", "b">>, <<"a">>, <<"B">>),
      Player(<<"b">>, <<"B", "a">>, <<"a", "b">>) }

Rosters == SeqsUpTo(PlayerPool, MaxRoster)

----------------------------------------------------------------------------
(* GET /teams, /teams/{team_id}, /teams/{team_id}/roster                   *)
get_all_teams ==
    OK([i \in 1..Len(team_data) |-> [id |-> team_data[i].id, name |-> team_data[i].name]])

get_team_by_id(team_id) ==
    LET i == FirstIndex({k \in 1..Len(team_data) : team_data[k].id = team_id})
    IN  IF i = 0
        THEN HTTPException(404, [msg |-> "Team with ID {team_id} not found",
                                 team_id |-> team_id])
        ELSE OK(team_data[i])

\* get_team_roster scanning for the last team with the id instead of the first.
get_team_roster_last(team_id) ==
    LET Ids == {k \in 1..Len(team_data) : team_data[k].id = team_id}
    IN  IF Ids = {}
        THEN HTTPException(404, [msg |-> "Team with ID {team_id} not found",
                                 team_id |-> team_id])
        ELSE OK(team_data[CHOOSE k \in Ids : \A j \in Ids : j <= k].roster)

get_team_roster(team_id) ==
    LET i == FirstIndex({k \in 1..Len(team_data) : team_data[k].id = team_id})
    IN  IF i = 0
        THEN HTTPException(404, [msg |-> "Team with ID {team_id} not found",
                                 team_id |-> team_id])
        ELSE OK(team_data[i].roster)

(* GET /teams/name/{team_name}                                             *)
\* get_team_by_name with .lower() left off the query.
get_team_by_name_raw(team_name) ==
    LET i == FirstIndex({k \in 1..Len(team_data) : lower(team_data[k].name) = team_name})
    IN  IF i = 0
        THEN HTTPException(404, [msg |-> "Team '{team_name}' not found",
                                 team_name |-> team_name])
        ELSE OK(team_data[i])

get_team_by_name(team_name) ==
    LET i == FirstIndex({k \in 1..Len(team_data) :
                             lower(team_data[k].name) = lower(team_name)})
    IN  IF i = 0
        THEN HTTPException(404, [msg |-> "Team '{team_name}' not found",
                                 team_name |-> team_name])
        ELSE OK(team_data[i])

(* GET /standings/eastern, /standings/western                              *)
get_eastern_standings == OK(standings_data_eastern)

\* The second function the source names get_eastern_standings, the route
\* /standings/western.
get_western_standings == OK(standings_data_western)

(* GET /teams/{team_id}/standing                                           *)
\* get_team_standing falling back to the Western table.
get_team_standing_both(team_id) ==
    LET i == FirstIndex({k \in 1..Len(team_data) : team_data[k].id = team_id})
    IN  IF i = 0
        THEN HTTPException(404, [msg |-> "Team with ID {team_id} not found",
                                 team_id |-> team_id])
        ELSE LET team == team_data[i]
                 both == standings_data_eastern \o standings_data_western
                 j == FirstIndex({k \in 1..Len(both) : both[k].Team = team.name})
             IN  IF j = 0
                 THEN HTTPException(404, [msg |-> "Standing data not found for {team['name']}",
                                          name |-> team.name])
                 ELSE OK([team |-> team.name, standing |-> both[j]])

get_team_standing(team_id) ==
    LET i == FirstIndex({k \in 1..Len(team_data) : team_data[k].id = team_id})
    IN  IF i = 0
        THEN HTTPException(404, [msg |-> "Team with ID {team_id} not found",
                                 team_id |-> team_id])
        ELSE LET team == team_data[i]
                 j == FirstIndex({k \in 1..Len(standings_data_eastern) :
                                      standings_data_eastern[k].Team = team.name})
             IN  IF j = 0
                 THEN HTTPException(404, [msg |-> "Standing data not found for {team['name']}",
                                          name |-> team.name])
                 ELSE OK([team |-> team.name, standing |-> standings_data_eastern[j]])

(* GET /search/players                                                     *)
\* player_match with .upper() left off the player's position.
player_match_raw(player, name, position, country) ==
    /\ ~(Truthy(name) /\ ~StrIn(lower(name), lower(player.name)))
    /\ ~(Truthy(position) /\ ~StrIn(upper(position), player.position))
    /\ ~(Truthy(country) /\ ~StrIn(lower(country), lower(player.country)))

player_match(player, name, position, country) ==
    /\ ~(Truthy(name) /\ ~StrIn(lower(name), lower(player.name)))
    /\ ~(Truthy(position) /\ ~StrIn(upper(position), upper(player.position)))
    /\ ~(Truthy(country) /\ ~StrIn(lower(country), lower(player.country)))

search_players(name, position, country) ==
    LET InRoster(team) ==
            LET acc[k \in 0..Len(team.roster)] ==
                    IF k = 0 THEN <<>>
                    ELSE IF player_match(team.roster[k], name, position, country)
                         THEN Append(acc[k - 1],
                                     [player |-> team.roster[k], team |-> team.name])
                         ELSE acc[k - 1]
            IN  acc[Len(team.roster)]
        all[t \in 0..Len(team_data)] ==
            IF t = 0 THEN <<>> ELSE all[t - 1] \o InRoster(team_data[t])
        results == all[Len(team_data)]
    IN  IF results = <<>>
        THEN HTTPException(404, [msg |-> "No players found matching the criteria"])
        ELSE OK([count |-> Len(results), results |-> results])

(* GET /games, /games/search                                               *)
get_all_games == OK(games_data)

\* game_match testing team1 and team2 each on its own.
game_match_fields(game, team, date) ==
    /\ ~(Truthy(team) /\ ~(\/ StrIn(lower(team), lower(game.team1))
                           \/ StrIn(lower(team), lower(game.team2))))
    /\ ~(Truthy(date) /\ date # game.date)

game_match(game, team, date) ==
    /\ ~(Truthy(team) /\ ~StrIn(lower(team), lower(game.team1) \o lower(game.team2)))
    /\ ~(Truthy(date) /\ date # game.date)

search_games(team, date) ==
    LET acc[k \in 0..Len(games_data)] ==
            IF k = 0 THEN <<>>
            ELSE IF game_match(games_data[k], team, date)
                 THEN Append(acc[k - 1], games_data[k])
                 ELSE acc[k - 1]
        results == acc[Len(games_data)]
    IN  IF results = <<>>
        THEN HTTPException(404, [msg |-> "No games found matching the criteria"])
        ELSE OK(results)

----------------------------------------------------------------------------
(* The server before its first request: the tables are loaded, nothing has *)
(* been asked, the event loop is idle.                                     *)
Reqs == 1..NumReqs

NoRequest == [route |-> "none"]

NoResponse == [status |-> 0]

ServerIdle ==
    /\ pc = [r \in Reqs |-> "idle"]
    /\ loop = 0
    /\ inflight = [r \in Reqs |-> NoRequest]
    /\ external = [r \in Reqs |-> [stage |-> "none"]]
    /\ outbound = [r \in Reqs |-> <<>>]
    /\ external_calls = [r \in Reqs |-> 0]
    /\ replies = [r \in Reqs |-> NoResponse]

InitWith(TeamTables, EasternTables, WesternTables, GameTables) ==
    /\ team_data \in TeamTables
    /\ standings_data_eastern \in EasternTables
    /\ standings_data_western \in WesternTables
    /\ games_data \in GameTables
    /\ request = NoRequest
    /\ response = NoResponse
    /\ ServerIdle

\* A data route handled start to finish: the tables are only read.
Serve(req, resp) ==
    /\ request' = req
    /\ response' = resp
    /\ UNCHANGED <<tables, server>>

TeamName(i) == [k \in 1..i |-> "a"]

DefaultTeams ==
    { <<Team(1, <<"A", "b">>, <<Player(<<"A", "b">>, <<"a">>, <<"B">>)>>),
        Team(2, <<"b">>, <<>>)>> }

DefaultEastern == { <<Standing(<<"A", "b">>, 3)>> }

DefaultWestern == { <<Standing(<<"b">>, 2)>> }

DefaultGames == { <<Game(<<"A">>, <<"b">>, <<"a">>)>> }

IdQueries == 0..(MaxTeams + 1)

GET_teams == Serve([route |-> "/teams"], get_all_teams)

GET_teams_id ==
    \E team_id \in IdQueries :
        Serve([route |-> "/teams/{team_id}", team_id |-> team_id],
              get_team_by_id(team_id))

GET_teams_id_roster ==
    \E team_id \in IdQueries :
        Serve([route |-> "/teams/{team_id}/roster", team_id |-> team_id],
              get_team_roster(team_id))

----------------------------------------------------------------------------
(* Lookup by id: tables whose ids may repeat, with every roster.           *)
TeamIds == {1, 2}

TeamsById ==
    SeqsUpTo({Team(id, TeamName(id), roster) : id \in TeamIds, roster \in Rosters},
             MaxTeams)

InitById == InitWith(TeamsById, DefaultEastern, DefaultWestern, DefaultGames)

NextById == GET_teams \/ GET_teams_id \/ GET_teams_id_roster

SpecById == InitById /\ [][NextById]_vars

\* C1: for every id, /teams/{id} and /teams/{id}/roster select the first
\* team with that id: both answer 404 when there is none, otherwise the Team
\* returned has the queried id and its roster is, player for player and in
\* order, the list the roster route returns.
C1_SameTeam ==
    request.route \in {"/teams/{team_id}", "/teams/{team_id}/roster"} =>
        LET id == request.team_id
            byId == IF request.route = "/teams/{team_id}"
                    THEN response ELSE get_team_by_id(id)
            roster == IF request.route = "/teams/{team_id}/roster"
                      THEN response ELSE get_team_roster(id)
            Owners == {k \in 1..Len(team_data) : team_data[k].id = id}
        IN  IF Owners = {}
            THEN byId.status = 404 /\ roster.status = 404
            ELSE LET first == CHOOSE k \in Owners : \A j \in Owners : k <= j
                 IN  /\ byId.status = 200 /\ roster.status = 200
                     /\ byId.body = team_data[first]
                     /\ byId.body.id = id
                     /\ Len(roster.body) = Len(byId.body.roster)
                     /\ \A n \in 1..Len(roster.body) :
                            roster.body[n] = byId.body.roster[n]

\* The roster route answers with a two-player roster of an id that a later
\* team with another roster carries too.
C1_Witness ==
    /\ request.route = "/teams/{team_id}/roster"
    /\ response.status = 200
    /\ Len(response.body) = 2
    /\ response.body[1] # response.body[2]
    /\ \E k \in 1..Len(team_data) :
           team_data[k].id = request.team_id /\ team_data[k].roster # response.body

----------------------------------------------------------------------------
(* Lookup by name: tables whose names may agree up to letter case.         *)
CaseEq(c, d) == c = d \/ {c, d} \in {{"a", "A"}, {"b", "B"}}

SameIgnoringCase(s, t) ==
    Len(s) = Len(t) /\ \A i \in 1..Len(s) : CaseEq(s[i], t[i])

\* needle occurs in hay, letter case ignored.
CISub(needle, hay) ==
    \E i \in 0..(Len(hay) - Len(needle)) :
        \A k \in 1..Len(needle) : CaseEq(hay[i + k], needle[k])

TeamNames == { <<"A", "b">>, <<"a", "B">>, <<"a", "b">>, <<"b">> }

TeamsByName ==
    UNION { { [i \in 1..n |-> Team(i, names[i], <<>>)] : names \in [1..n -> TeamNames] }
            : n \in 0..MaxTeams }

\* A path segment is never empty.
NameQueries == Str(MaxLen) \ {<<>>}

GET_teams_name ==
    \E team_name \in NameQueries :
        Serve([route |-> "/teams/name/{team_name}", team_name |-> team_name],
              get_team_by_name(team_name))

InitByName == InitWith(TeamsByName, DefaultEastern, DefaultWestern, DefaultGames)

NextByName == GET_teams \/ GET_teams_name

SpecByName == InitByName /\ [][NextByName]_vars

\* C2: /teams/name/{name} answers with the first team whose name equals the
\* query up to letter case, with 404 when there is none, and every query
\* that differs from this one only in letter case gets the same outcome.
C2_CaseInsensitive ==
    request.route = "/teams/name/{team_name}" =>
        LET q == request.team_name
            M == {k \in 1..Len(team_data) : SameIgnoringCase(team_data[k].name, q)}
        IN  /\ IF M = {}
               THEN response.status = 404
               ELSE response = OK(team_data[CHOOSE k \in M : \A j \in M : k <= j])
            /\ \A q2 \in NameQueries :
                   SameIgnoringCase(q, q2) =>
                       LET other == get_team_by_name(q2)
                       IN  /\ other.status = response.status
                           /\ response.status = 200 => other.body = response.body

\* A query in capitals finds a team whose stored name is spelt otherwise.
C2_Witness ==
    /\ request.route = "/teams/name/{team_name}"
    /\ request.team_name = <<"A", "B">>
    /\ response.status = 200
    /\ response.body.name = <<"a", "b">>
    /\ response.body.id = 2

----------------------------------------------------------------------------
(* Standings: team names and rows that may agree only up to letter case,   *)
(* in either conference table.                                             *)
StandingNames == { <<"a">>, <<"A">> }

TeamsForStanding ==
    UNION { { [i \in 1..n |-> Team(i, names[i], <<>>)] : names \in [1..n -> StandingNames] }
            : n \in 0..MaxTeams }

EasternTables ==
    SeqsUpTo({Standing(name, w) : name \in StandingNames, w \in {3, 4}}, MaxRows)

WesternTables == SeqsUpTo({Standing(name, 2) : name \in StandingNames}, MaxRows)

GET_standings_eastern == Serve([route |-> "/standings/eastern"], get_eastern_standings)

GET_standings_western == Serve([route |-> "/standings/western"], get_western_standings)

GET_teams_id_standing ==
    \E team_id \in IdQueries :
        Serve([route |-> "/teams/{team_id}/standing", team_id |-> team_id],
              get_team_standing(team_id))

InitStanding == InitWith(TeamsForStanding, EasternTables, WesternTables, DefaultGames)

NextStanding == GET_standings_eastern \/ GET_standings_western \/ GET_teams_id_standing

SpecStanding == InitStanding /\ [][NextStanding]_vars

\* C6: /teams/{id}/standing answers 404 for an unknown id and for a team with
\* no Eastern row of exactly its name, whatever the Western table holds, and
\* otherwise answers with the team's name and the first such Eastern row.
C6_EasternOnly ==
    request.route = "/teams/{team_id}/standing" =>
        LET T == {k \in 1..Len(team_data) : team_data[k].id = request.team_id}
        IN  IF T = {}
            THEN response.status = 404
            ELSE LET name == team_data[CHOOSE k \in T : \A j \in T : k <= j].name
                     E == {j \in 1..Len(standings_data_eastern) :
                               standings_data_eastern[j].Team = name}
                 IN  IF E = {}
                     THEN response.status = 404
                     ELSE response =
                              OK([team |-> name,
                                  standing |-> standings_data_eastern[
                                      CHOOSE j \in E : \A i \in E : j <= i]])

\* A known team gets 404 while the Western table has a row of exactly its
\* name and the Eastern table has one that differs in letter case only.
C6_Witness ==
    /\ request.route = "/teams/{team_id}/standing"
    /\ response.status = 404
    /\ \E k \in 1..Len(team_data) :
           /\ team_data[k].id = request.team_id
           /\ \E j \in 1..Len(standings_data_western) :
                  standings_data_western[j].Team = team_data[k].name
           /\ \E j \in 1..Len(standings_data_eastern) :
                  SameIgnoringCase(standings_data_eastern[j].Team, team_data[k].name)

----------------------------------------------------------------------------
(* Player search: every roster over the player pool, each filter absent,   *)
(* empty, or a text in some letter case.                                   *)
TeamsWithRosters ==
    UNION { { [i \in 1..n |-> Team(i, TeamName(i), rs[i])] : rs \in [1..n -> Rosters] }
            : n \in 0..MaxTeams }

NameFilters == { None, <<>>, <<"a">>, <<"A", "B">> }

PositionFilters == { None, <<"b">>, <<"A">> }

CountryFilters == { None, <<"b">> }

GET_search_players ==
    \E name \in NameFilters, position \in PositionFilters, country \in CountryFilters :
        Serve([route |-> "/search/players", name |-> name, position |-> position,
               country |-> country],
              search_players(name, position, country))

InitPlayers == InitWith(TeamsWithRosters, DefaultEastern, DefaultWestern, DefaultGames)

NextPlayers == GET_teams \/ GET_search_players

SpecPlayers == InitPlayers /\ [][NextPlayers]_vars

\* The roster entries, as <<team index, roster index>>, that pass every
\* supplied filter of the current /search/players request.
Hits ==
    { p \in UNION { { <<t, k>> : k \in 1..Len(team_data[t].roster) }
                    : t \in 1..Len(team_data) } :
        LET player == team_data[p[1]].roster[p[2]]
        IN  /\ request.name # None => CISub(request.name, player.name)
            /\ request.position # None => CISub(request.position, player.position)
            /\ request.country # None => CISub(request.country, player.country) }

RosterEntries[t \in 0..Len(team_data)] ==
    IF t = 0 THEN 0 ELSE RosterEntries[t - 1] + Len(team_data[t].roster)

Before(p, q) == p[1] < q[1] \/ (p[1] = q[1] /\ p[2] <= q[2])

\* C3: /search/players answers 404 exactly when no roster entry passes every
\* supplied filter (a case-insensitive substring test per field); otherwise
\* the results are those entries, each once, in table then roster order,
\* each paired with its team's name, and count is their number, which with
\* no filter at all is the number of roster entries of the whole table.
C3_SearchPlayers ==
    request.route = "/search/players" =>
        IF Hits = {}
        THEN response.status = 404
        ELSE /\ response.status = 200
             /\ (request.name = None /\ request.position = None /\ request.country = None)
                    => response.body.count = RosterEntries[Len(team_data)]
             /\ response.body.count = Len(response.body.results)
             /\ Len(response.body.results) = Cardinality(Hits)
             /\ \A p \in Hits :
                    response.body.results[Cardinality({q \in Hits : Before(q, p)})] =
                        [player |-> team_data[p[1]].roster[p[2]],
                         team |-> team_data[p[1]].name]

\* A position filter in the other letter case keeps the second and third of
\* four roster entries spread over two teams.
C3_Witness ==
    /\ request.route = "/search/players"
    /\ request.position = <<"b">> /\ request.name = None /\ request.country = None
    /\ response.status = 200
    /\ response.body.count = 2
    /\ Hits = { <<1, 2>>, <<2, 1>> }
    /\ Len(team_data) = 2 /\ Len(team_data[2].roster) = 2

----------------------------------------------------------------------------
(* Game search.                                                            *)
GameTables ==
    SeqsUpTo({Game(team1, team2, date) :
                  team1 \in {<<"A">>, <<"b">>}, team2 \in {<<"A">>, <<"b">>},
                  date \in {<<"a">>, <<"A">>}},
             MaxGames)

TeamFilters == { None, <<>>, <<"a">>, <<"a", "B">>, <<"B", "a">>, <<"b", "b">> }

DateFilters == { None, <<>>, <<"a">>, <<"A">> }

GET_games == Serve([route |-> "/games"], get_all_games)

GET_games_search ==
    \E team \in TeamFilters, date \in DateFilters :
        Serve([route |-> "/games/search", team |-> team, date |-> date],
              search_games(team, date))

InitGames == InitWith(DefaultTeams, DefaultEastern, DefaultWestern, GameTables)

NextGames == GET_games \/ GET_games_search

SpecGames == InitGames /\ [][NextGames]_vars

TeamHit(game) ==
    request.team # None => CISub(request.team, game.team1 \o game.team2)

\* C4: in /games/search a game passes the team filter exactly when the text
\* occurs, letter case ignored, in team1 directly followed by team2: every
\* game returned passes it, a 404 means no game passes it together with the
\* date asked for, and with no date or a non-empty one the answer is exactly
\* the passing games of that date in table order, 404 when there are none.
C4_TeamFilter ==
    request.route = "/games/search" =>
        LET M == {k \in 1..Len(games_data) :
                      /\ TeamHit(games_data[k])
                      /\ request.date = None \/ games_data[k].date = request.date}
        IN  /\ response.status = 200 =>
                   \A n \in 1..Len(response.body) : TeamHit(response.body[n])
            /\ response.status = 404 => M = {}
            /\ request.date # <<>> =>
                   IF M = {}
                   THEN response.status = 404
                   ELSE /\ response.status = 200
                        /\ Len(response.body) = Cardinality(M)
                        /\ \A k \in M :
                               response.body[Cardinality({j \in M : j <= k})] = games_data[k]

\* The text "aB" is found only across the boundary of team1 "A" and team2 "b".
C4_Witness ==
    /\ request.route = "/games/search"
    /\ request.team = <<"a", "B">> /\ request.date = None
    /\ response.status = 200
    /\ Len(games_data) = 2
    /\ Len(response.body) = 1
    /\ response.body[1].team1 = <<"A">> /\ response.body[1].team2 = <<"b">>
    /\ games_data[1].team1 = <<"b">>

\* C5: whenever a date is supplied to /games/search, the empty text included,
\* every game returned has exactly that date, and the answer is 404 when no
\* game has it.
C5_DateFilter ==
    (request.route = "/games/search" /\ request.date # None) =>
        /\ response.status = 200 =>
               \A n \in 1..Len(response.body) : response.body[n].date = request.date
        /\ (~\E k \in 1..Len(games_data) : games_data[k].date = request.date) =>
               response.status = 404

----------------------------------------------------------------------------
(* POST /chat: the relay.                                                  *)
Exception(type, msg) == [type |-> type, msg |-> msg]

\* detail=f"Chat error: {str(e)}"
ChatError(e) == HTTPException(500, <<"Chat error: ", e.msg>>)

ChatMessage(role, content) == [role |-> role, content |-> content]

\* Convert request messages to Watsonx format, forwarding a message of any
\* other role as a user message.
convert_messages_all(messages) ==
    LET acc[k \in 0..Len(messages)] ==
            IF k = 0 THEN <<>>
            ELSE LET msg == messages[k]
                 IN  IF msg.role = "system"
                     THEN Append(acc[k - 1], [role |-> "system", content |-> [str |-> msg.content]])
                     ELSE IF msg.role = "assistant"
                     THEN Append(acc[k - 1], [role |-> "assistant", content |-> [str |-> msg.content]])
                     ELSE Append(acc[k - 1],
                                 [role |-> "user",
                                  content |-> [list |-> <<[type |-> "text", text |-> msg.content]>>]])
    IN  acc[Len(messages)]

\* Convert request messages to Watsonx format. A content is a str or a list
\* of parts.
convert_messages(messages) ==
    LET acc[k \in 0..Len(messages)] ==
            IF k = 0 THEN <<>>
            ELSE LET msg == messages[k]
                 IN  IF msg.role = "system"
                     THEN Append(acc[k - 1], [role |-> "system", content |-> [str |-> msg.content]])
                     ELSE IF msg.role = "user"
                     THEN Append(acc[k - 1],
                                 [role |-> "user",
                                  content |-> [list |-> <<[type |-> "text", text |-> msg.content]>>]])
                     ELSE IF msg.role = "assistant"
                     THEN Append(acc[k - 1], [role |-> "assistant", content |-> [str |-> msg.content]])
                     ELSE acc[k - 1]
    IN  acc[Len(messages)]

\* What model.chat can hand back: an object with attributes, a dict, or
\* anything else. members holds the attributes or the keys.
Object(members) == [kind |-> "object", members |-> members]

Mapping(members) == [kind |-> "mapping", members |-> members]

Choices ==
    { [message |-> [content |-> [str |-> "Lakers"]]],
      [message |-> [content |-> [none |-> TRUE]]],
      [message |-> [role |-> "assistant"]],
      [index |-> 0] }

Members ==
    { [id |-> "chat-1"], [choices |-> <<>>] } \cup { [choices |-> <<c>>] : c \in Choices }

ResponseShapes ==
    { Object(m) : m \in Members } \cup { Mapping(m) : m \in Members }
        \cup { [kind |-> "other", members |-> [id |-> "chat-1"]] }

Return(value) == [raised |-> FALSE, value |-> value]

Raise(type, msg) == [raised |-> TRUE, e |-> Exception(type, msg)]

\* choices[0].message.content by attribute access, or by key when keyed.
first_content(resp, keyed) ==
    LET choices == resp.members.choices
    IN  IF Len(choices) = 0
        THEN Raise("IndexError", "list index out of range")
        ELSE IF "message" \notin DOMAIN choices[1]
        THEN IF keyed THEN Raise("KeyError", "'message'")
             ELSE Raise("AttributeError", "object has no attribute 'message'")
        ELSE IF "content" \notin DOMAIN choices[1].message
        THEN IF keyed THEN Raise("KeyError", "'content'")
             ELSE Raise("AttributeError", "object has no attribute 'content'")
        ELSE Return(choices[1].message.content)

\* Extract text from response.
extract_text(resp) ==
    IF /\ resp.kind = "object"
       /\ "choices" \in DOMAIN resp.members
       /\ Len(resp.members.choices) > 0
    THEN first_content(resp, FALSE)
    ELSE IF resp.kind = "mapping" /\ "choices" \in DOMAIN resp.members
    THEN first_content(resp, TRUE)
    ELSE Return([str_of |-> resp])

\* ChatResponse(response=response_text): the field is declared str.
ChatResponse(response_text) ==
    IF "none" \in DOMAIN response_text
    THEN Raise("ValidationError", "Input should be a valid string")
    ELSE Return([response |-> response_text])

\* The handler from the return of model.chat to its own return or raise.
chat_reply(resp) ==
    LET text == extract_text(resp)
    IN  IF text.raised THEN ChatError(text.e)
        ELSE LET out == ChatResponse(text.value)
             IN  IF out.raised THEN ChatError(out.e) ELSE OK(out.value)

----------------------------------------------------------------------------
(* The server: uvicorn.run(app) serves every connection from one event     *)
(* loop. A def route is run in a worker thread, and the loop accepts the   *)
(* request and sends the reply; an async def route runs on the loop itself *)
(* and holds it until the coroutine awaits or ends.                        *)
Done(r, reply) ==
    /\ pc' = [pc EXCEPT ![r] = "done"]
    /\ replies' = [replies EXCEPT ![r] = reply]

\* A client sends a request; it waits in the socket for the loop.
Arrive(r, req) ==
    /\ pc[r] = "idle"
    /\ pc' = [pc EXCEPT ![r] = "arrived"]
    /\ inflight' = [inflight EXCEPT ![r] = req]
    /\ UNCHANGED <<tables, request, response, loop, external, outbound,
                   external_calls, replies>>

\* The step raised nothing.
NoError == Exception("none", "")

ClientErrors == { Exception("WMLClientError", "url is not set") }

ModelErrors == { Exception("WMLClientError", "project_id is missing") }

CallErrors == { Exception("ApiRequestFailure", "503 from the service") }

\* chat(), from its first line up to the call of model.chat, which does not
\* return before the service has answered: there is no await in the body.
chat_call(r) ==
    /\ pc[r] = "arrived"
    /\ inflight[r].route = "/chat"
    /\ loop = 0
    /\ \E client \in {NoError} \cup ClientErrors, model \in {NoError} \cup ModelErrors :
           IF client # NoError
           THEN /\ external' = [external EXCEPT ![r] = [stage |-> "client", e |-> client]]
                /\ Done(r, ChatError(client))
                /\ UNCHANGED <<loop, outbound, external_calls>>
           ELSE IF model # NoError
           THEN /\ external' = [external EXCEPT ![r] = [stage |-> "model", e |-> model]]
                /\ Done(r, ChatError(model))
                /\ UNCHANGED <<loop, outbound, external_calls>>
           ELSE /\ external' = [external EXCEPT ![r] = [stage |-> "call", state |-> "pending"]]
                /\ outbound' = [outbound EXCEPT ![r] = convert_messages(inflight[r].messages)]
                /\ external_calls' = [external_calls EXCEPT ![r] = @ + 1]
                /\ loop' = r
                /\ pc' = [pc EXCEPT ![r] = "calling"]
                /\ UNCHANGED replies
    /\ UNCHANGED <<tables, request, response, inflight>>

\* model.chat returns; the handler runs to its end and frees the loop.
chat_return(r) ==
    /\ pc[r] = "calling"
    /\ \E value \in ResponseShapes :
           /\ external' = [external EXCEPT
                              ![r] = [stage |-> "call", state |-> "returned", value |-> value]]
           /\ Done(r, chat_reply(value))
    /\ loop' = 0
    /\ UNCHANGED <<tables, request, response, inflight, outbound, external_calls>>

\* except Exception as e, retrying the call once before giving up.
chat_except_retry(r) ==
    /\ pc[r] = "calling"
    /\ \E e \in CallErrors :
           IF external_calls[r] < 2
           THEN /\ external_calls' = [external_calls EXCEPT ![r] = @ + 1]
                /\ UNCHANGED <<pc, replies, loop, external>>
           ELSE /\ external' = [external EXCEPT
                                   ![r] = [stage |-> "call", state |-> "raised", e |-> e]]
                /\ Done(r, ChatError(e))
                /\ loop' = 0
                /\ UNCHANGED external_calls
    /\ UNCHANGED <<tables, request, response, inflight, outbound>>

\* model.chat raises; except Exception as e turns it into the 500.
chat_except(r) ==
    /\ pc[r] = "calling"
    /\ \E e \in CallErrors :
           /\ external' = [external EXCEPT
                              ![r] = [stage |-> "call", state |-> "raised", e |-> e]]
           /\ Done(r, ChatError(e))
    /\ loop' = 0
    /\ UNCHANGED <<tables, request, response, inflight, outbound, external_calls>>

\* The loop accepts a request of a def route and hands it to a worker thread.
data_accept(r) ==
    /\ pc[r] = "arrived"
    /\ inflight[r].route = "/teams/{team_id}"
    /\ loop = 0
    /\ pc' = [pc EXCEPT ![r] = "in_thread"]
    /\ UNCHANGED <<tables, request, response, loop, inflight, external, outbound,
                   external_calls, replies>>

\* The worker thread runs the handler.
data_run(r) ==
    /\ pc[r] = "in_thread"
    /\ pc' = [pc EXCEPT ![r] = "computed"]
    /\ replies' = [replies EXCEPT ![r] = get_team_by_id(inflight[r].team_id)]
    /\ UNCHANGED <<tables, request, response, loop, inflight, external, outbound,
                   external_calls>>

\* The loop sends the reply the worker thread left.
data_send(r) ==
    /\ pc[r] = "computed"
    /\ loop = 0
    /\ pc' = [pc EXCEPT ![r] = "done"]
    /\ UNCHANGED <<tables, request, response, loop, inflight, external, outbound,
                   external_calls, replies>>

----------------------------------------------------------------------------
(* One chat request followed from arrival to reply, over every message     *)
(* list and every shape of the service's answer.                           *)
Roles == { "system", "user", "assistant", "tool", "User" }

Contents == { "You are an NBA expert", "Who won the 2020 finals?" }

MessageLists ==
    SeqsUpTo({ChatMessage(role, content) : role \in Roles, content \in Contents}, MaxMsgs)

InitRelay == InitWith(DefaultTeams, DefaultEastern, DefaultWestern, DefaultGames)

POST_chat(r, Lists) ==
    \E messages \in Lists : Arrive(r, [route |-> "/chat", messages |-> messages])

NextRelay ==
    \/ POST_chat(1, MessageLists)
    \/ chat_call(1)
    \/ chat_return(1)
    \/ chat_except(1)

SpecRelay == InitRelay /\ [][NextRelay]_vars

IsChat(r) == inflight[r].route = "/chat"

Forwarded == { "system", "user", "assistant" }

\* C7: the list handed to the model is the inbound list restricted to the
\* roles system, user and assistant, order kept, one message each: system and
\* assistant contents as plain text, user contents as the one-part list; a
\* message of any other role is dropped and the call is made all the same.
C7_Outbound ==
    \A r \in Reqs :
        (IsChat(r) /\ external[r].stage = "call") =>
            LET inbound == inflight[r].messages
                Kept == {k \in 1..Len(inbound) : inbound[k].role \in Forwarded}
            IN  /\ external_calls[r] = 1
                /\ Len(outbound[r]) = Cardinality(Kept)
                /\ \A k \in Kept :
                       LET out == outbound[r][Cardinality({j \in Kept : j <= k})]
                       IN  /\ out.role = inbound[k].role
                           /\ out.content =
                                  IF inbound[k].role = "user"
                                  THEN [list |-> <<[type |-> "text",
                                                    text |-> inbound[k].content]>>]
                                  ELSE [str |-> inbound[k].content]

\* A tool message ahead of a user message: one outbound message, the call made.
C7_Witness ==
    /\ IsChat(1) /\ pc[1] = "calling"
    /\ Len(inflight[1].messages) = 2
    /\ inflight[1].messages[1].role = "tool"
    /\ inflight[1].messages[2].role = "user"
    /\ Len(outbound[1]) = 1

\* C8: whatever model.chat returns, extraction falls through its three tiers
\* without an error and /chat answers 200 with some text.
C8_NeverAnError ==
    \A r \in Reqs :
        (IsChat(r) /\ pc[r] = "done" /\ external[r].stage = "call"
                   /\ external[r].state = "returned") =>
            replies[r].status = 200

\* C9: a failure in building the client, building the model or calling the
\* service ends the request with 500 and "Chat error: " followed by the
\* failure's message; a chat request ends with 200 or 500, and the service
\* is called at most once per request.
C9_ChatError ==
    \A r \in Reqs :
        IsChat(r) =>
            /\ external_calls[r] <= 1
            /\ pc[r] = "done" => replies[r].status \in {200, 500}
            /\ (pc[r] = "done" /\ "e" \in DOMAIN external[r]) =>
                   /\ replies[r] = HTTPException(500, <<"Chat error: ", external[r].e.msg>>)
                   /\ external_calls[r] = (IF external[r].stage = "call" THEN 1 ELSE 0)

\* The service was called once, raised, and the request ended with the 500.
C9_Witness ==
    /\ IsChat(1) /\ pc[1] = "done"
    /\ external[1].stage = "call" /\ external[1].state = "raised"
    /\ external_calls[1] = 1
    /\ replies[1].status = 500

----------------------------------------------------------------------------
(* Several requests in flight on the one event loop.                       *)
LoopMessages == { <<ChatMessage("user", "Who won the 2020 finals?")>> }

GET_teams_id_arrives(r) ==
    \E team_id \in {1, 3} : Arrive(r, [route |-> "/teams/{team_id}", team_id |-> team_id])

NextLoop ==
    \E r \in Reqs :
        \/ POST_chat(r, LoopMessages)
        \/ GET_teams_id_arrives(r)
        \/ chat_call(r)
        \/ chat_return(r)
        \/ chat_except(r)
        \/ data_accept(r)
        \/ data_run(r)
        \/ data_send(r)

SpecLoop == InitRelay /\ [][NextLoop]_vars

\* The next step of request r that needs the event loop.
LoopStep(r) == chat_call(r) \/ data_accept(r) \/ data_send(r)

\* C10: while a chat request waits for the service, any other request that
\* has arrived, or whose reply is ready, is taken up without waiting for the
\* service to answer.
C10_Unaffected ==
    \A c \in Reqs, r \in Reqs :
        (c # r /\ pc[c] = "calling" /\ pc[r] \in {"arrived", "computed"}) =>
            ENABLED LoopStep(r)

====
